---------------------------- MODULE Spec2Model ----------------------------
(***************************************************************************)
(* A model of gocker: the container execution engine (container.Run and   *)
(* its init branch), the registry client and root filesystem cache         *)
(* (build.Runner.handleFrom, image.DownloadImage) and the layer assembler  *)
(* (filesystem.BuildFromLayers and the tar entry handlers).                *)
(*                                                                         *)
(* Three specifications share the module.  SpecRun is one container        *)
(* launch: the supervisor and the re-executed child run concurrently, one  *)
(* action per system call.  SpecImage is the base-image pipeline, which    *)
(* may be invoked repeatedly against the same /tmp/gocker directories.     *)
(* SpecFS is the extraction of tar entries into a target root.             *)
(***************************************************************************)
EXTENDS Integers, Sequences, FiniteSets, TLC

(***************************************************************************)
(* Bounds of the model.                                                    *)
(***************************************************************************)
\* longest command vector handed to container.Run
MaxCmdLen == 2


(***************************************************************************)
(* State.  First the state of a launch (container.Run), then the state of  *)
(* the base-image pipeline (handleFrom, DownloadImage, BuildFromLayers),   *)
(* then the state of the extraction of tar entries into a target root.     *)
(***************************************************************************)
VARIABLES
    rootfsFiles,  \* paths that exist inside the root filesystem
    command,      \* the command vector handed to Run (entrypoint and args)
    supPc,        \* the supervisor's position in Run
    childPc,      \* the child's position: re-executed main, init branch, entrypoint
    childEnv,     \* environment variables set to "1" in the child
    cgroupProcs,  \* processes placed in gocker-container.slice
    cgroupMade,   \* the resource group exists
    attachErr,    \* error returned by attachToCgroup ("" is nil)
    runErr,       \* error returned by the supervisor's Run ("" is nil)
    initErr,      \* error returned by startInitProcess in the child
    statErr,      \* what os.Stat(entrypoint) returned in the child ("" : not called)
    childExit,    \* the child's exit status (-1: none yet)
    execArgs,     \* argv handed to syscall.Exec
    calls         \* system calls in the order they were made (call recorder)

runVars == <<rootfsFiles, command, supPc, childPc, childEnv, cgroupProcs,
             cgroupMade, attachErr, runErr, initErr, statErr, childExit, execArgs,
             calls>>

VARIABLES
    imgPc,         \* position of the invocation in handleFrom
    rootfsExists,  \* /tmp/gocker/rootfs/<image>/<tag> exists
    rootfsTree,    \* layer archives extracted into the root filesystem, in order
    layerFiles,    \* files of /tmp/gocker/layers/<image>/<tag>: name -> content
    statRootfs,    \* err of os.Stat(rootfsPath) in this invocation
    requests,      \* network requests issued by this invocation, in order
    token,         \* bearer token returned by authenticate
    listResp,      \* how the manifest-list request was answered
    manifestList,  \* the decoded manifest list (a local of selectPlatformDigest)
    digest,        \* the platform digest selected
    manifest,      \* layer digests of the manifest fetched
    manifestResp,  \* how the manifest request was answered ("" : not yet)
    layerIdx,      \* index of the layer being downloaded
    dirListing,    \* entries returned by os.ReadDir still to be visited
    rRootfsPath,   \* r.rootfsPath
    fromErr,       \* error returned by handleFrom ("" is nil)
    downloadErr,   \* error returned by DownloadImage ("" is nil)
    before,        \* the directories and outcome as the invocation found them
    cleanups       \* times the root filesystem directory was removed by hand

imgVars == <<imgPc, rootfsExists, rootfsTree, layerFiles, statRootfs, requests,
             token, listResp, manifestList, digest, manifest, manifestResp,
             layerIdx, dirListing, rRootfsPath, fromErr, downloadErr, before,
             cleanups>>

VARIABLES
    fs,           \* the target root: path -> directory, file, symlink or nothing
    inodes,       \* the regular files of the target root: inode -> data and mode
    strays,       \* entries whose effect landed outside the path they name
    lastHdr,      \* the entry a handler was given last (NoEntry: none yet)
    layerNo,      \* number of the layer archive being extracted
    layerErr,     \* error extractLayer returned for this archive ("" : none yet)
    unsupported   \* this assembly has met an entry of a kind without a handler

fsVars == <<fs, inodes, strays, lastHdr, layerNo, layerErr, unsupported>>

VARIABLES
    layers,       \* the layer archives of the layers directory, each a sequence of entries
    builds,       \* number of times BuildFromLayers has extracted them
    firstTree     \* the target root as the first BuildFromLayers left it

againVars == <<layers, builds, firstTree>>

VARIABLES
    launchPc,     \* launch -> position of its supervisor in Run
    launchChild,  \* launch -> state of its child process
    launchGroup,  \* launch -> the group its child was added to ("" : none)
    launchErr,    \* launch -> the error its Run returned ("" : none)
    slices        \* the groups that exist under the root slice

launchVars == <<launchPc, launchChild, launchGroup, launchErr, slices>>

VARIABLES
    instructions, \* the instructions NewRunner was given
    instrIdx,     \* the instruction Prepare's loop is at
    runner,       \* the Runner's rootfsPath and entrypoint fields
    prepPc,       \* position of main: in Prepare, after it, in Run
    prepErr,      \* the error Prepare returned ("" : nil)
    prepared,     \* the root filesystem path and entrypoint Prepare returned
    hasInitEnv,   \* the process has the init marker in its environment
    mainErr       \* how the process ended ("" : not ended, or ended well)

prepVars == <<instructions, instrIdx, runner, prepPc, prepErr, prepared,
              hasInitEnv, mainErr>>

VARIABLES
    copyPc,       \* position in handleCopy
    copyRootfs,   \* r.rootfsPath when handleCopy is called
    copyInst,     \* the CopyInstruction: its Src and Dst
    hostSrc,      \* what is at srcPath on the host
    dstParent,    \* what is at filepath.Dir(dstPath)
    dstNode,      \* what is at dstPath
    dstBefore,    \* what was at dstPath when handleCopy was called
    copyErr       \* the error handleCopy returned ("" : nil)

copyVars == <<copyPc, copyRootfs, copyInst, hostSrc, dstParent, dstNode,
              dstBefore, copyErr>>

VARIABLES
    dockerfile,   \* the instructions Parse yields for the Dockerfile
    procs,        \* supervisor and child: where each is in main, and its Runner
    rootfsDir     \* the root filesystem directory exists

orchVars == <<dockerfile, procs, rootfsDir>>

\* an action of one part leaves the other parts as they are
RunOnly ==
    UNCHANGED <<imgVars, fsVars, againVars, launchVars, prepVars, copyVars,
                orchVars>>
ImageOnly ==
    UNCHANGED <<runVars, fsVars, againVars, launchVars, prepVars, copyVars,
                orchVars>>
FsOnly ==
    UNCHANGED <<runVars, imgVars, againVars, launchVars, prepVars, copyVars,
                orchVars>>
AgainOnly ==
    UNCHANGED <<runVars, imgVars, lastHdr, layerNo, layerErr, unsupported,
                launchVars, prepVars, copyVars, orchVars>>
LaunchOnly ==
    UNCHANGED <<runVars, imgVars, fsVars, againVars, prepVars, copyVars,
                orchVars>>
PrepareOnly ==
    UNCHANGED <<runVars, imgVars, fsVars, againVars, launchVars, copyVars,
                orchVars>>
CopyOnly ==
    UNCHANGED <<runVars, imgVars, fsVars, againVars, launchVars, prepVars,
                orchVars>>
MainOnly ==
    UNCHANGED <<runVars, imgVars, fsVars, againVars, launchVars, prepVars,
                copyVars>>

(***************************************************************************)
(* Part 1.  container.Run: the supervisor and the re-executed child.       *)
(***************************************************************************)
initEnv == "GOCKER_INIT"

\* the one child of the launch
ChildPid == "child"

\* entrypoint paths of the model: an installed script and a shell
Paths == {"/app/index.js", "/bin/sh"}

ErrStart    == "failed to start container"
ErrCgroup   == "failed to apply cgroup"
ErrCreateCg == "failed to create cgroup"
ErrAddProc  == "failed to add process to cgroup"
ErrChroot   == "chroot failed"
ErrChdir    == "chdir failed"
ErrMount    == "mount /proc failed"
ErrNotExist == "entrypoint command does not exist"
ErrExec     == "exec failed"
ErrPanic    == "index out of range"
ErrPrepare  == "failed to prepare runner"
ErrExit     == "exit status"

\* command vectors of at most n elements
Commands(n) == UNION {[1..k -> Paths] : k \in 0..n}

ChildAlive == childPc \notin {"none", "exited", "killed"}

\* os.Stat(entrypoint) inside the new root: nil or ENOENT, or another error
\* (ENOTDIR, EACCES, ELOOP) for which os.IsNotExist is false
StatResults(path) ==
    IF path \in rootfsFiles THEN {"nil", "other"} ELSE {"ENOENT", "other"}

IsNotExist(err) == err = "ENOENT"

\* syscall.Exec(entrypoint, ...): replaces the image only when the file exists
ExecResults(path) ==
    IF path \in rootfsFiles THEN {"replaced", "failed"} ELSE {"failed"}

Tail1(s) == IF Len(s) = 0 THEN <<>> ELSE Tail(s)

InitRun ==
    /\ rootfsFiles \in SUBSET Paths
    /\ command \in Commands(MaxCmdLen)
    /\ supPc = "Start"
    /\ childPc = "none"
    /\ childEnv = {}
    /\ cgroupProcs = {}
    /\ cgroupMade = FALSE
    /\ attachErr = ""
    /\ runErr = ""
    /\ initErr = ""
    /\ statErr = ""
    /\ childExit = -1
    /\ execArgs = <<>>
    /\ calls = <<>>

\* ---- supervisor: Run, lines 25-43 ----

\* the child's environment built without the marker
ChildEnvironUnmarked(env) == env

\* Run, line 27: cmd.Env = append(os.Environ(), initEnv+"=1")
ChildEnviron(env) == env \cup {initEnv}

\* Run, lines 25-35: exec.Command, cmd.Env, cmd.Start()
RunStart ==
    /\ RunOnly
    /\ supPc = "Start"
    /\ \E ok \in BOOLEAN :
         /\ calls' = Append(calls, "Start")
         /\ IF ok
              THEN /\ childPc' = "main"
                   /\ childEnv' = ChildEnviron(childEnv)
                   /\ supPc' = "NewSystemd"
                   /\ runErr' = runErr
              ELSE /\ supPc' = "returned"
                   /\ runErr' = ErrStart
                   /\ UNCHANGED <<childPc, childEnv>>
    /\ UNCHANGED <<rootfsFiles, command, cgroupProcs, cgroupMade, attachErr,
                   initErr, statErr, childExit, execArgs>>

\* attachToCgroup, lines 84-99: cgroup2.NewSystemd
attachToCgroupNewSystemd ==
    /\ RunOnly
    /\ supPc = "NewSystemd"
    /\ \E ok \in BOOLEAN :
         /\ calls' = Append(calls, "NewSystemd")
         /\ IF ok
              THEN /\ cgroupMade' = TRUE
                   /\ supPc' = "AddProc"
                   /\ attachErr' = attachErr
              ELSE /\ supPc' = "Kill"
                   /\ attachErr' = ErrCreateCg
                   /\ UNCHANGED cgroupMade
    /\ UNCHANGED <<rootfsFiles, command, childPc, childEnv, cgroupProcs, runErr,
                   initErr, statErr, childExit, execArgs>>

\* attachToCgroup, lines 101-106: cg.AddProc(pid)
attachToCgroupAddProc ==
    /\ RunOnly
    /\ supPc = "AddProc"
    /\ \E ok \in BOOLEAN :
         /\ calls' = Append(calls, "AddProc")
         /\ IF ok
              THEN /\ cgroupProcs' = cgroupProcs \cup {ChildPid}
                   /\ supPc' = "Wait"
                   /\ attachErr' = attachErr
              ELSE /\ supPc' = "Kill"
                   /\ attachErr' = ErrAddProc
                   /\ UNCHANGED cgroupProcs
    /\ UNCHANGED <<rootfsFiles, command, childPc, childEnv, cgroupMade, runErr,
                   initErr, statErr, childExit, execArgs>>

\* Kill with the signal never sent: the child is left as it was
KillNotSent(pc) == pc

\* the effect of cmd.Process.Kill() on the child's position
Kill(pc) == IF pc \in {"none", "exited", "killed"} THEN pc ELSE "killed"

\* Run, lines 38-41: _ = cmd.Process.Kill(); return the cgroup error
RunKill ==
    /\ RunOnly
    /\ supPc = "Kill"
    /\ calls' = Append(calls, "Kill")
    /\ childPc' = Kill(childPc)
    /\ childExit' = IF childPc' = "killed" THEN 137 ELSE childExit
    /\ supPc' = "returned"
    /\ runErr' = ErrCgroup
    /\ UNCHANGED <<rootfsFiles, command, childEnv, cgroupProcs, cgroupMade,
                   attachErr, initErr, statErr, execArgs>>

\* Run returning nil at line 43 without waiting for the child
RunReturnsAtOnce ==
    /\ RunOnly
    /\ supPc = "Wait"
    /\ calls' = Append(calls, "Wait")
    /\ supPc' = "returned"
    /\ runErr' = ""
    /\ UNCHANGED <<rootfsFiles, command, childPc, childEnv, cgroupProcs,
                   cgroupMade, attachErr, initErr, statErr, childExit, execArgs>>

\* Run, line 43: return cmd.Wait()
RunWait ==
    /\ RunOnly
    /\ supPc = "Wait"
    /\ ~ChildAlive
    /\ calls' = Append(calls, "Wait")
    /\ supPc' = "returned"
    /\ runErr' = IF childExit = 0 THEN "" ELSE ErrExit
    /\ UNCHANGED <<rootfsFiles, command, childPc, childEnv, cgroupProcs,
                   cgroupMade, attachErr, initErr, statErr, childExit, execArgs>>

\* ---- child: main, then Run's init branch ----

\* the child leaves with an error: main prints it and calls os.Exit(1)
ChildFails(err) ==
    /\ initErr' = err
    /\ childPc' = "exited"
    /\ childExit' = IF err = ErrPanic THEN 2 ELSE 1

\* main, lines 13-32, in the child: Getwd, Parse and Prepare run again
mainPrepare ==
    /\ RunOnly
    /\ childPc = "main"
    /\ \E ok \in BOOLEAN :
         IF ok THEN /\ childPc' = "Run"
                    /\ UNCHANGED <<initErr, childExit>>
               ELSE ChildFails(ErrPrepare)
    /\ UNCHANGED <<rootfsFiles, command, supPc, childEnv, cgroupProcs,
                   cgroupMade, attachErr, runErr, statErr, execArgs, calls>>

\* Run, lines 21-25, in the child: os.Getenv(initEnv) == "1" selects the init
\* branch; without the marker the child would go on to line 25 and spawn
RunInitBranch ==
    /\ RunOnly
    /\ childPc = "Run"
    /\ childPc' = IF initEnv \in childEnv THEN "Chroot" ELSE "Respawn"
    /\ UNCHANGED <<rootfsFiles, command, supPc, childEnv, cgroupProcs, cgroupMade,
                   attachErr, runErr, initErr, statErr, childExit, execArgs, calls>>

\* a setup step whose error is recorded but not returned: the branch goes on
SetupStepGoesOn(pc, name, next, err) ==
    /\ RunOnly
    /\ childPc = pc
    /\ calls' = Append(calls, name)
    /\ childPc' = next
    /\ \E ok \in BOOLEAN : initErr' = IF ok THEN initErr ELSE err
    /\ UNCHANGED <<rootfsFiles, command, supPc, childEnv, cgroupProcs,
                   cgroupMade, attachErr, runErr, statErr, childExit, execArgs>>

\* one setup system call of startInitProcess: on failure return at once
SetupStep(pc, name, next, err) ==
    /\ RunOnly
    /\ childPc = pc
    /\ calls' = Append(calls, name)
    /\ \E ok \in BOOLEAN :
         IF ok THEN /\ childPc' = next
                    /\ UNCHANGED <<initErr, childExit>>
               ELSE ChildFails(err)
    /\ UNCHANGED <<rootfsFiles, command, supPc, childEnv, cgroupProcs,
                   cgroupMade, attachErr, runErr, statErr, execArgs>>

\* startInitProcess, lines 54-57: syscall.Chroot(rootfs)
startInitProcessChroot == SetupStep("Chroot", "Chroot", "Chdir", ErrChroot)

\* startInitProcess, lines 58-61: syscall.Chdir("/")
startInitProcessChdir == SetupStep("Chdir", "Chdir", "Mount", ErrChdir)

\* startInitProcess, lines 62-65: syscall.Mount("proc", "/proc", ...)
startInitProcessMount == SetupStep("Mount", "Mount", "Stat", ErrMount)

\* the existence check with its result ignored: exec is always attempted
startInitProcessStatUnchecked ==
    /\ RunOnly
    /\ childPc = "Stat"
    /\ Len(command) > 0
    /\ calls' = Append(calls, "Stat")
    /\ \E err \in StatResults(command[1]) : statErr' = err
    /\ childPc' = "Exec"
    /\ UNCHANGED <<rootfsFiles, command, supPc, childEnv, cgroupProcs, cgroupMade,
                   attachErr, runErr, initErr, childExit, execArgs>>

\* startInitProcess, lines 67-71: command[0], os.Stat, os.IsNotExist
startInitProcessStat ==
    /\ RunOnly
    /\ childPc = "Stat"
    /\ IF Len(command) = 0
         THEN /\ ChildFails(ErrPanic)
              /\ UNCHANGED <<calls, statErr>>
         ELSE /\ calls' = Append(calls, "Stat")
              /\ \E err \in StatResults(command[1]) :
                   /\ statErr' = err
                   /\ IF IsNotExist(err)
                        THEN ChildFails(ErrNotExist)
                        ELSE /\ childPc' = "Exec"
                             /\ UNCHANGED <<initErr, childExit>>
    /\ UNCHANGED <<rootfsFiles, command, supPc, childEnv, cgroupProcs,
                   cgroupMade, attachErr, runErr, execArgs>>

\* startInitProcess, lines 72-78: syscall.Exec(entrypoint, args, os.Environ())
startInitProcessExec ==
    /\ RunOnly
    /\ childPc = "Exec"
    /\ calls' = Append(calls, "Exec")
    /\ execArgs' = <<command[1]>> \o Tail1(command)
    /\ \E res \in ExecResults(command[1]) :
         IF res = "replaced"
           THEN /\ childPc' = "entrypoint"
                /\ UNCHANGED <<initErr, childExit>>
           ELSE ChildFails(ErrExec)
    /\ UNCHANGED <<rootfsFiles, command, supPc, childEnv, cgroupProcs,
                   cgroupMade, attachErr, runErr, statErr>>

\* the entrypoint, once executing, finishes with some exit status
EntrypointExits ==
    /\ RunOnly
    /\ childPc = "entrypoint"
    /\ childPc' = "exited"
    /\ \E status \in {0, 1} : childExit' = status
    /\ UNCHANGED <<rootfsFiles, command, supPc, childEnv, cgroupProcs,
                   cgroupMade, attachErr, runErr, initErr, statErr, execArgs, calls>>

NextRun ==
    \/ RunStart
    \/ attachToCgroupNewSystemd
    \/ attachToCgroupAddProc
    \/ RunKill
    \/ RunWait
    \/ mainPrepare
    \/ RunInitBranch
    \/ startInitProcessChroot
    \/ startInitProcessChdir
    \/ startInitProcessMount
    \/ startInitProcessStat
    \/ startInitProcessExec
    \/ EntrypointExits


(***************************************************************************)
(* Part 2.  The base-image pipeline: build.Runner.handleFrom,              *)
(* image.DownloadImage and filesystem.BuildFromLayers, one layer archive   *)
(* at a time.  The pipeline may be invoked again and again (one run of the *)
(* program each) against the same directories under /tmp/gocker.  The      *)
(* directories are taken to be creatable: os.MkdirAll succeeds.            *)
(***************************************************************************)
\* the longest manifest list and the longest manifest the registry serves
MaxManifests == 2
MaxLayers == 2

\* how often the root filesystem directory is removed between invocations
MaxCleanups == 1

RootfsPath == "/tmp/gocker/rootfs/node/alpine"

\* runtime.GOOS and runtime.GOARCH of the host
currentOS == "linux"
currentArch == "amd64"

OSes == {"linux", "windows"}
Arches == {"amd64", "arm64"}
ManifestDigests == {"sha256:m1", "sha256:m2"}

\* a PlatformDescriptor, with its Platform flattened
Descriptors == [digest : ManifestDigests, os : OSes, architecture : Arches]

ManifestLists(n) == UNION {[1..k -> Descriptors] : k \in 0..n}

\* layer digests as byte strings: "sha256:" and two hexadecimal digits
\* (03 and 04), standing for the sixty-four of a real digest
DigestPrefix == <<115, 104, 97, 50, 53, 54, 58>>
LayerDigests == {DigestPrefix \o <<48, 51>>, DigestPrefix \o <<48, 52>>}

Manifests(n) == UNION {[1..k -> LayerDigests] : k \in 0..n}

\* fileExt = ".tar.gz" and layerFileExt = ".gz", as bytes
fileExt == <<46, 116, 97, 114, 46, 103, 122>>
layerFileExt == <<46, 103, 122>>

ErrAuth       == "authenticate failed"
ErrSelect     == "manifest list request failed"
ErrNoPlatform == "no manifest found for platform"
ErrManifest   == "manifest request failed"
ErrLayer      == "layer download failed"
ErrDownload   == "failed to download image"
ErrBuild      == "failed to build root filesystem"

\* the character of the URL-safe base64 alphabet for a six-bit value
B64Char(v) ==
    IF v < 26 THEN 65 + v
    ELSE IF v < 52 THEN 97 + (v - 26)
    ELSE IF v < 62 THEN 48 + (v - 52)
    ELSE IF v = 62 THEN 45
    ELSE 95

\* base64.URLEncoding.EncodeToString: three bytes to four characters, the
\* last group padded with '='
RECURSIVE EncodeToString(_)
EncodeToString(b) ==
    IF Len(b) = 0 THEN <<>>
    ELSE IF Len(b) = 1 THEN
        <<B64Char(b[1] \div 4), B64Char((b[1] % 4) * 16), 61, 61>>
    ELSE IF Len(b) = 2 THEN
        <<B64Char(b[1] \div 4),
          B64Char((b[1] % 4) * 16 + b[2] \div 16),
          B64Char((b[2] % 16) * 4), 61>>
    ELSE
        <<B64Char(b[1] \div 4),
          B64Char((b[1] % 4) * 16 + b[2] \div 16),
          B64Char((b[2] % 16) * 4 + b[3] \div 64),
          B64Char(b[3] % 64)>> \o EncodeToString(SubSeq(b, 4, Len(b)))

\* a file name made from the digest's algorithm alone
digestToFilenameAlgorithm(d) == EncodeToString(SubSeq(d, 1, 6)) \o fileExt

digestToFilename(d) == EncodeToString(d) \o fileExt

\* filepath.Ext: the suffix of the name from its last dot
RECURSIVE Ext(_)
Ext(name) ==
    IF Len(name) = 0 THEN <<>>
    ELSE LET rest == Ext(Tail(name))
         IN  IF rest # <<>> THEN rest
             ELSE IF name[1] = 46 THEN name ELSE <<>>

\* byte-wise string order, the order of os.ReadDir's entries
RECURSIVE StrLess(_, _)
StrLess(a, b) ==
    IF Len(b) = 0 THEN FALSE
    ELSE IF Len(a) = 0 THEN TRUE
    ELSE IF a[1] # b[1] THEN a[1] < b[1]
    ELSE StrLess(Tail(a), Tail(b))

\* os.ReadDir: the directory's entries sorted by filename
RECURSIVE ReadDir(_)
ReadDir(names) ==
    IF names = {} THEN <<>>
    ELSE LET first == CHOOSE x \in names :
                          \A y \in names \ {x} : StrLess(x, y)
         IN  <<first>> \o ReadDir(names \ {first})

\* os.Stat of a directory: nil or ENOENT, or another error
StatDir(exists) == IF exists THEN {"nil", "other"} ELSE {"ENOENT", "other"}

MatchesHost(m) == m.os = currentOS /\ m.architecture = currentArch

\* a scan that compares the operating system only
selectPlatformDigestScanOS(list) ==
    IF \E i \in 1..Len(list) : list[i].os = currentOS
      THEN CHOOSE i \in 1..Len(list) :
               /\ list[i].os = currentOS
               /\ \A j \in 1..(i - 1) : list[j].os # currentOS
      ELSE 0

\* selectPlatformDigest, lines 134-138: index of the first descriptor of the
\* host's platform, 0 when there is none
selectPlatformDigestScan(list) ==
    IF \E i \in 1..Len(list) : MatchesHost(list[i])
      THEN CHOOSE i \in 1..Len(list) :
               /\ MatchesHost(list[i])
               /\ \A j \in 1..(i - 1) : ~MatchesHost(list[j])
      ELSE 0

Snapshot == [rootfsExists |-> rootfsExists, rootfsTree |-> rootfsTree,
             layerFiles |-> layerFiles, failed |-> (fromErr # "")]

NoFiles == [n \in {} |-> 0]

InitImage ==
    /\ imgPc = "idle"
    /\ rootfsExists = FALSE
    /\ rootfsTree = <<>>
    /\ layerFiles = NoFiles
    /\ statRootfs = ""
    /\ requests = <<>>
    /\ token = ""
    /\ listResp = ""
    /\ manifestList = <<>>
    /\ digest = ""
    /\ manifest = <<>>
    /\ manifestResp = ""
    /\ layerIdx = 0
    /\ dirListing = <<>>
    /\ rRootfsPath = ""
    /\ fromErr = ""
    /\ downloadErr = ""
    /\ before = Snapshot
    /\ cleanups = 0

\* DownloadImage returns err and handleFrom wraps it (lines 87-90 of handleFrom)
DownloadFails(err) ==
    /\ downloadErr' = err
    /\ fromErr' = ErrDownload
    /\ imgPc' = "returned"

\* handleFrom without the cache short-circuit: the pipeline always runs
handleFromStatNoCache ==
    /\ ImageOnly
    /\ imgPc \in {"idle", "returned"}
    /\ before' = Snapshot
    /\ requests' = <<>>
    /\ token' = ""
    /\ listResp' = ""
    /\ manifestList' = <<>>
    /\ digest' = ""
    /\ manifest' = <<>>
    /\ manifestResp' = ""
    /\ layerIdx' = 0
    /\ dirListing' = <<>>
    /\ fromErr' = ""
    /\ downloadErr' = ""
    /\ \E err \in StatDir(rootfsExists) : statRootfs' = err
    /\ rRootfsPath' = ""
    /\ imgPc' = "MkdirAll"
    /\ UNCHANGED <<rootfsExists, rootfsTree, layerFiles, cleanups>>

\* handleFrom, lines 69-82: a fresh Runner, os.Stat(rootfsPath) and the cache
\* short-circuit
handleFromStat ==
    /\ ImageOnly
    /\ imgPc \in {"idle", "returned"}
    /\ before' = Snapshot
    /\ requests' = <<>>
    /\ token' = ""
    /\ listResp' = ""
    /\ manifestList' = <<>>
    /\ digest' = ""
    /\ manifest' = <<>>
    /\ manifestResp' = ""
    /\ layerIdx' = 0
    /\ dirListing' = <<>>
    /\ fromErr' = ""
    /\ downloadErr' = ""
    /\ \E err \in StatDir(rootfsExists) :
         /\ statRootfs' = err
         /\ IF ~IsNotExist(err)
              THEN /\ rRootfsPath' = RootfsPath
                   /\ imgPc' = "returned"
              ELSE /\ rRootfsPath' = ""
                   /\ imgPc' = "MkdirAll"
    /\ UNCHANGED <<rootfsExists, rootfsTree, layerFiles, cleanups>>

\* handleFrom, lines 84-85: both directories are created before the download
handleFromMkdirAll ==
    /\ ImageOnly
    /\ imgPc = "MkdirAll"
    /\ rootfsExists' = TRUE
    /\ imgPc' = "authenticate"
    /\ UNCHANGED <<rootfsTree, layerFiles, statRootfs, requests, token, listResp,
                   manifestList, digest, manifest, manifestResp, layerIdx, dirListing,
                   rRootfsPath, fromErr, downloadErr, before, cleanups>>

\* authenticate, lines 92-109: the status is not looked at, so an answer
\* without a token decodes to the empty token and a nil error
authenticate ==
    /\ ImageOnly
    /\ imgPc = "authenticate"
    /\ requests' = Append(requests, <<"token">>)
    /\ \E resp \in {"neterr", "badjson", "token", "notoken"} :
         IF resp \in {"neterr", "badjson"}
           THEN /\ DownloadFails(ErrAuth)
                /\ UNCHANGED token
           ELSE /\ token' = IF resp = "token" THEN "t" ELSE ""
                /\ imgPc' = "selectPlatformDigest"
                /\ UNCHANGED <<fromErr, downloadErr>>
    /\ UNCHANGED <<rootfsExists, rootfsTree, layerFiles, statRootfs, listResp,
                   manifestList, digest, manifest, manifestResp, layerIdx, dirListing,
                   rRootfsPath, before, cleanups>>

\* selectPlatformDigest, lines 111-141
selectPlatformDigest ==
    /\ ImageOnly
    /\ imgPc = "selectPlatformDigest"
    /\ requests' = Append(requests, <<"manifests", "tag">>)
    /\ \/ \E resp \in {"neterr", "badjson"} :
            /\ listResp' = resp
            /\ DownloadFails(ErrSelect)
            /\ UNCHANGED <<manifestList, digest>>
       \/ \E list \in ManifestLists(MaxManifests) :
            /\ listResp' = "list"
            /\ manifestList' = list
            /\ LET i == selectPlatformDigestScan(list)
               IN  IF i = 0
                     THEN /\ DownloadFails(ErrNoPlatform)
                          /\ UNCHANGED digest
                     ELSE /\ digest' = list[i].digest
                          /\ imgPc' = "fetchManifest"
                          /\ UNCHANGED <<fromErr, downloadErr>>
    /\ UNCHANGED <<rootfsExists, rootfsTree, layerFiles, statRootfs, token,
                   manifest, manifestResp, layerIdx, dirListing, rRootfsPath,
                   before, cleanups>>

\* json.Unmarshal of the manifest response, lines 167-171: the JSON body of
\* an error answer has no layers field and decodes to a manifest without
\* layers and a nil error
ManifestBodies(resp) ==
    IF resp = "httperr" THEN {<<>>} ELSE Manifests(MaxLayers)

\* fetchManifest, lines 148-172, and the head of DownloadImage's loop: the
\* request fails, the body is no JSON, or it decodes; the status is not looked
\* at.  The manifest list, a local of selectPlatformDigest, is gone by now.
fetchManifest ==
    /\ ImageOnly
    /\ imgPc = "fetchManifest"
    /\ requests' = Append(requests, <<"manifests", digest>>)
    /\ listResp' = ""
    /\ manifestList' = <<>>
    /\ \/ \E resp \in {"neterr", "badjson"} :
            /\ manifestResp' = resp
            /\ DownloadFails(ErrManifest)
            /\ UNCHANGED <<manifest, layerIdx>>
       \/ \E resp \in {"httperr", "manifest"} :
            \E m \in ManifestBodies(resp) :
              /\ manifestResp' = resp
              /\ manifest' = m
              /\ layerIdx' = 1
              /\ imgPc' = IF Len(m) = 0 THEN "ReadDir" ELSE "downloadLayer"
              /\ UNCHANGED <<fromErr, downloadErr>>
    /\ UNCHANGED <<rootfsExists, rootfsTree, layerFiles, statRootfs, token,
                   digest, dirListing, rRootfsPath, before, cleanups>>

\* the file a blob response leaves at filePath
Stored(d, body) == [digest |-> d, body |-> body]

\* DownloadImage's loop going on to the next layer after a layer failed
downloadLayerGoesOn ==
    /\ ImageOnly
    /\ imgPc = "downloadLayer"
    /\ LET d == manifest[layerIdx]
           name == digestToFilename(d)
           written(body) == [n \in DOMAIN layerFiles \cup {name} |->
                               IF n = name THEN Stored(d, body) ELSE layerFiles[n]]
       IN  \E resp \in {"neterr", "createerr", "copyerr", "httperr", "ok"} :
             /\ requests' = Append(requests, <<"blobs", d>>)
             /\ layerFiles' = CASE resp = "ok" -> written("layer")
                                [] resp = "httperr" -> written("error")
                                [] resp = "copyerr" -> written("partial")
                                [] OTHER -> layerFiles
             /\ downloadErr' = IF resp \in {"neterr", "createerr", "copyerr"}
                                 THEN ErrLayer ELSE downloadErr
             /\ layerIdx' = layerIdx + 1
             /\ imgPc' = IF layerIdx = Len(manifest)
                           THEN "ReadDir" ELSE "downloadLayer"
             /\ UNCHANGED fromErr
    /\ UNCHANGED <<rootfsExists, rootfsTree, statRootfs, token, listResp,
                   manifestList, digest, manifest, manifestResp, dirListing, rRootfsPath,
                   before, cleanups>>

\* downloadLayer, lines 179-203, for manifest.Layers[layerIdx], and the step
\* of DownloadImage's loop (lines 76-85)
downloadLayer ==
    /\ ImageOnly
    /\ imgPc = "downloadLayer"
    /\ LET d == manifest[layerIdx]
           name == digestToFilename(d)
           written(body) == [n \in DOMAIN layerFiles \cup {name} |->
                               IF n = name THEN Stored(d, body) ELSE layerFiles[n]]
       IN  \E resp \in {"neterr", "createerr", "copyerr", "httperr", "ok"} :
             /\ requests' = Append(requests, <<"blobs", d>>)
             /\ layerFiles' = CASE resp = "ok" -> written("layer")
                                [] resp = "httperr" -> written("error")
                                [] resp = "copyerr" -> written("partial")
                                [] OTHER -> layerFiles
             /\ IF resp \in {"neterr", "createerr", "copyerr"}
                  THEN /\ DownloadFails(ErrLayer)
                       /\ UNCHANGED layerIdx
                  ELSE /\ layerIdx' = layerIdx + 1
                       /\ imgPc' = IF layerIdx = Len(manifest)
                                     THEN "ReadDir" ELSE "downloadLayer"
                       /\ UNCHANGED <<fromErr, downloadErr>>
    /\ UNCHANGED <<rootfsExists, rootfsTree, statRootfs, token, listResp,
                   manifestList, digest, manifest, manifestResp, dirListing, rRootfsPath,
                   before, cleanups>>

\* BuildFromLayers, lines 232-235: os.ReadDir(layersDir)
BuildFromLayersReadDir ==
    /\ ImageOnly
    /\ imgPc = "ReadDir"
    /\ \E ok \in BOOLEAN :
         IF ok THEN /\ dirListing' = ReadDir(DOMAIN layerFiles)
                    /\ imgPc' = "extractLayer"
                    /\ UNCHANGED fromErr
               ELSE /\ fromErr' = ErrBuild
                    /\ imgPc' = "returned"
                    /\ UNCHANGED dirListing
    /\ UNCHANGED <<rootfsExists, rootfsTree, layerFiles, statRootfs, requests,
                   token, listResp, manifestList, digest, manifest, manifestResp, layerIdx,
                   rRootfsPath, downloadErr, before, cleanups>>

\* what extractLayer leaves in the target root for a layer file: the whole
\* archive, the part that precedes the cut when the file is truncated (the
\* read of the next tar entry fails), or nothing when the file is no gzip
\* stream (gzip.NewReader fails).  Part 3 models the entries of an archive.
Extracted(file) ==
    CASE file.body = "layer" -> {<<[digest |-> file.digest, whole |-> TRUE]>>}
      [] file.body = "partial" -> {<<[digest |-> file.digest, whole |-> FALSE]>>}
      [] OTHER -> {<<>>}

\* extractLayer, lines 264-276, returns an error for a layer file that is no
\* gzip stream or that ends before the archive does
ExtractFails(file) == file.body # "layer"

\* BuildFromLayers, lines 237-245: one turn of the loop; the error of
\* extractLayer is dropped
BuildFromLayersExtract ==
    /\ ImageOnly
    /\ imgPc = "extractLayer"
    /\ Len(dirListing) > 0
    /\ LET name == Head(dirListing)
       IN  IF Ext(name) # layerFileExt
             THEN UNCHANGED rootfsTree
             ELSE \E out \in Extracted(layerFiles[name]) :
                      rootfsTree' = rootfsTree \o out
    /\ dirListing' = Tail(dirListing)
    /\ UNCHANGED <<imgPc, rootfsExists, layerFiles, statRootfs, requests, token,
                   listResp, manifestList, digest, manifest, manifestResp, layerIdx,
                   rRootfsPath, fromErr, downloadErr, before, cleanups>>

\* BuildFromLayers, line 246, and handleFrom, lines 92-97
BuildFromLayersReturn ==
    /\ ImageOnly
    /\ imgPc = "extractLayer"
    /\ Len(dirListing) = 0
    /\ rRootfsPath' = RootfsPath
    /\ imgPc' = "returned"
    /\ UNCHANGED <<rootfsExists, rootfsTree, layerFiles, statRootfs, requests,
                   token, listResp, manifestList, digest, manifest, manifestResp, layerIdx,
                   dirListing, fromErr, downloadErr, before, cleanups>>

\* between two invocations somebody removes the root filesystem directory
\* (the tree persists until externally cleaned up); the layer files stay
ExternalCleanup ==
    /\ ImageOnly
    /\ imgPc = "returned"
    /\ rootfsExists
    /\ cleanups < MaxCleanups
    /\ cleanups' = cleanups + 1
    /\ rootfsExists' = FALSE
    /\ rootfsTree' = <<>>
    /\ imgPc' = "idle"
    /\ UNCHANGED <<layerFiles, statRootfs, requests, token, listResp,
                   manifestList, digest, manifest, manifestResp, layerIdx, dirListing,
                   rRootfsPath, fromErr, downloadErr, before>>

NextImage ==
    \/ handleFromStat
    \/ handleFromMkdirAll
    \/ authenticate
    \/ selectPlatformDigest
    \/ fetchManifest
    \/ downloadLayer
    \/ BuildFromLayersReadDir
    \/ BuildFromLayersExtract
    \/ BuildFromLayersReturn
    \/ ExternalCleanup


(***************************************************************************)
(* Part 3.  The extraction of layer archives into the target root, one tar *)
(* entry at a time: handleTarHeader and the handlers of tarHeaders.go.     *)
(* The target root has three paths, app, app/index.js and bin.  System     *)
(* calls fail only for what the tree holds (a file where a directory is    *)
(* needed, a missing link target), not for disk errors.  A path that       *)
(* leaves the three, through a symbolic link, is "OUT": /etc/passwd of the *)
(* host, or a child of a directory other than app.                         *)
(***************************************************************************)
\* layer archives extracted by one BuildFromLayers; an archive has any number
\* of entries
MaxFsLayers == 2

dirPerm == 493

Names == {"app", "app/index.js", "bin"}

\* filepath.Dir within the target root ("." is the root itself)
Dir(p) == IF p = "app/index.js" THEN "app" ELSE "."

\* link targets as recorded in a symlink entry
Linknames == {"bin", "app/index.js", "/etc/passwd"}

\* permission bits 0644 and 0755
Modes == {420, 493}

Datas == {"A", "B"}

Entry(t, n, l, m, d) ==
    [typeflag |-> t, name |-> n, linkname |-> l, mode |-> m, data |-> d]

NoEntry == Entry("", "", "", 0, "")

\* tar headers: directories, regular files, symbolic links, hard links and,
\* as a kind without a handler, fifos
Entries ==
    {Entry("dir", n, "", m, "") : n \in Names, m \in Modes}
    \cup {Entry("reg", n, "", x[1], x[2]) : n \in Names, x \in Modes \X Datas}
    \cup {Entry("symlink", n, l, 511, "") : n \in Names, l \in Linknames}
    \cup {Entry("link", n, l, 420, "") : n \in Names, l \in Names}
    \cup {Entry("fifo", n, "", 420, "") : n \in Names}

Nothing == [kind |-> "none"]
DirNode == [kind |-> "dir", mode |-> dirPerm]
FileNode(i) == [kind |-> "file", ino |-> i]
SymNode(t) == [kind |-> "symlink", target |-> t]

Inos == 1..Cardinality(Names)
FreeInode == [data |-> "", mode |-> 0]

\* the tree, its files and the strays, as one value handed from call to call
Tree(f, i, s) == [fs |-> f, ino |-> i, strays |-> s]

Ok(t) == [st |-> t, err |-> FALSE]
Failed(t) == [st |-> t, err |-> TRUE]

\* the one element of a set; {F(x) : x \in {v}} computes v once for F
The(S) == CHOOSE y \in S : TRUE

\* where the target of a symbolic link at p leads: links are relative to the
\* directory that holds them
LinkDest(p, linkname) ==
    IF Dir(p) = "." /\ linkname \in Names THEN linkname ELSE "OUT"

\* path resolution, as the kernel does it: Where follows symbolic links in
\* the parent and in the last component, LWhere (lstat, unlink, symlink,
\* link) in the parent only.  The result is a path of Names, "OUT", or "ERR"
\* (ENOENT, ENOTDIR or ELOOP on the way).
RECURSIVE Where(_, _, _)
ParentOf(f, p, fuel) ==
    IF Dir(p) = "." THEN "."
    ELSE The({IF w \notin Names THEN "ERR"
              ELSE IF f[w].kind # "dir" THEN "ERR"
              ELSE IF w = Dir(p) THEN w
              ELSE "OUT" : w \in {Where(f, Dir(p), fuel - 1)}})

Where(f, p, fuel) ==
    IF fuel <= 0 THEN "ERR"
    ELSE The({IF par \in {"ERR", "OUT"} THEN par
              ELSE IF f[p].kind = "symlink"
                THEN LET t == LinkDest(p, f[p].target)
                     IN  IF t = "OUT" THEN "OUT" ELSE Where(f, t, fuel - 1)
              ELSE p : par \in {ParentOf(f, p, fuel)}})

Hops == 2 * Cardinality(Names)

Follow(f, p) == Where(f, p, Hops)
LWhere(f, p) == ParentOf(f, p, Hops)

\* os.Stat, as os.MkdirAll reads it: a directory, something else, or nothing
\* (any error)
StatKind(f, p) ==
    The({IF w = "ERR" THEN "absent"
         ELSE IF w = "OUT"
           THEN IF LWhere(f, p) = "OUT" THEN "absent" ELSE "notdir"
         ELSE IF f[w].kind = "dir" THEN "dir"
         ELSE IF f[w].kind = "none" THEN "absent"
         ELSE "notdir" : w \in {Follow(f, p)}})

Stray(t, e) == Tree(t.fs, t.ino, t.strays \cup {e.name})

SetNode(t, p, node) == Tree([t.fs EXCEPT ![p] = node], t.ino, t.strays)

\* os.Mkdir(p, dirPerm), and the Lstat by which os.MkdirAll forgives EEXIST
Mkdir(t, e, p) ==
    The({IF par = "ERR" THEN Failed(t)
         ELSE IF par = "OUT" THEN Ok(Stray(t, e))
         ELSE IF t.fs[p].kind = "none" THEN Ok(SetNode(t, p, DirNode))
         ELSE IF t.fs[p].kind = "dir" THEN Ok(t)
         ELSE Failed(t) : par \in {LWhere(t.fs, p)}})

\* os.MkdirAll(p, dirPerm)
RECURSIVE MkdirAll(_, _, _)
MkdirAll(t, e, p) ==
    IF p = "." THEN Ok(t)
    ELSE The({IF k = "dir" THEN Ok(t)
              ELSE IF k = "notdir" THEN Failed(t)
              ELSE The({IF r.err THEN r ELSE Mkdir(r.st, e, p) :
                        r \in {MkdirAll(t, e, Dir(p))}}) :
              k \in {StatKind(t.fs, p)}})

\* the paths that name inode i
LinksTo(f, i) == {q \in Names : f[q].kind = "file" /\ f[q].ino = i}

\* os.Remove(p), its error dropped: unlinks a file or a symbolic link and
\* removes an empty directory
Remove(t, e, p) ==
    The({IF par = "ERR" THEN t
         ELSE IF par = "OUT" THEN Stray(t, e)
         ELSE IF t.fs[p].kind = "file"
           THEN LET i == t.fs[p].ino
                IN  Tree([t.fs EXCEPT ![p] = Nothing],
                         IF LinksTo(t.fs, i) = {p}
                           THEN [t.ino EXCEPT ![i] = FreeInode] ELSE t.ino,
                         t.strays)
         ELSE IF t.fs[p].kind = "symlink" THEN SetNode(t, p, Nothing)
         ELSE IF /\ t.fs[p].kind = "dir"
                 /\ \A q \in Names : Dir(q) = p => t.fs[q].kind = "none"
           THEN SetNode(t, p, Nothing)
         ELSE t : par \in {LWhere(t.fs, p)}})

UsedInodes(f) == {f[q].ino : q \in {x \in Names : f[x].kind = "file"}}

\* the inode os.Create takes for a new file
NewInode(f) ==
    CHOOSE x \in Inos \ UsedInodes(f) : \A y \in Inos \ UsedInodes(f) : x <= y

\* handleDir: os.MkdirAll(target, dirPerm); the header's mode is not used
handleDir(t, hdr) == MkdirAll(t, hdr, hdr.name)

\* handleReg, after os.MkdirAll: os.Create (which follows a symbolic link
\* and truncates an existing file in place), os.Chmod, io.Copy
Create(u, hdr) ==
    LET written == [data |-> hdr.data, mode |-> hdr.mode]
    IN  The({IF w = "ERR" THEN Failed(u)
             ELSE IF w = "OUT" THEN Ok(Stray(u, hdr))
             ELSE IF u.fs[w].kind = "dir" THEN Failed(u)
             ELSE IF u.fs[w].kind = "file"
               THEN Ok(Tree(u.fs, [u.ino EXCEPT ![u.fs[w].ino] = written],
                            u.strays))
             ELSE LET i == NewInode(u.fs)
                  IN  Ok(Tree([u.fs EXCEPT ![w] = FileNode(i)],
                              [u.ino EXCEPT ![i] = written], u.strays)) :
             w \in {Follow(u.fs, hdr.name)}})

\* handleReg: os.MkdirAll of the parent, then the file
handleReg(t, hdr) ==
    The({IF r.err THEN r ELSE Create(r.st, hdr) :
         r \in {MkdirAll(t, hdr, Dir(hdr.name))}})

\* handleSymlink making the link to the place hdr.Linkname leads to, not to
\* the recorded string
SymlinkResolved(u, hdr) ==
    The({IF par = "ERR" THEN Failed(u)
         ELSE IF par = "OUT" THEN Ok(Stray(u, hdr))
         ELSE IF u.fs[hdr.name].kind # "none" THEN Failed(u)
         ELSE Ok(SetNode(u, hdr.name, SymNode(LinkDest(hdr.name, hdr.linkname)))) :
         par \in {LWhere(u.fs, hdr.name)}})

\* handleSymlink, after os.Remove: os.Symlink(hdr.Linkname, target)
Symlink(u, hdr) ==
    The({IF par = "ERR" THEN Failed(u)
         ELSE IF par = "OUT" THEN Ok(Stray(u, hdr))
         ELSE IF u.fs[hdr.name].kind # "none" THEN Failed(u)
         ELSE Ok(SetNode(u, hdr.name, SymNode(hdr.linkname))) :
         par \in {LWhere(u.fs, hdr.name)}})

\* handleSymlink: os.MkdirAll of the parent, os.Remove, os.Symlink
handleSymlink(t, hdr) ==
    The({IF r.err THEN r
         ELSE The({Symlink(u, hdr) : u \in {Remove(r.st, hdr, hdr.name)}}) :
         r \in {MkdirAll(t, hdr, Dir(hdr.name))}})

\* handleLink with a file copy in the place of os.Link: the new name gets a
\* file of its own with the content of the old one
LinkCopies(u, hdr) ==
    The({IF w[1] \in {"ERR", "OUT"} THEN Failed(u)
         ELSE IF u.fs[hdr.linkname].kind \in {"none", "dir"} THEN Failed(u)
         ELSE IF w[2] = "ERR" THEN Failed(u)
         ELSE IF w[2] = "OUT" THEN Ok(Stray(u, hdr))
         ELSE IF u.fs[hdr.name].kind # "none" THEN Failed(u)
         ELSE IF u.fs[hdr.linkname].kind = "symlink"
           THEN Ok(SetNode(u, hdr.name, u.fs[hdr.linkname]))
         ELSE LET i == NewInode(u.fs)
              IN  Ok(Tree([u.fs EXCEPT ![hdr.name] = FileNode(i)],
                          [u.ino EXCEPT ![i] = u.ino[u.fs[hdr.linkname].ino]],
                          u.strays)) :
         w \in {<<LWhere(u.fs, hdr.linkname), LWhere(u.fs, hdr.name)>>}})

\* handleLink, after os.Remove: os.Link(root/hdr.Linkname, target); the old
\* name must be a file or a symbolic link, the new one free
Link(u, hdr) ==
    The({IF w[1] \in {"ERR", "OUT"} THEN Failed(u)
         ELSE IF u.fs[hdr.linkname].kind \in {"none", "dir"} THEN Failed(u)
         ELSE IF w[2] = "ERR" THEN Failed(u)
         ELSE IF w[2] = "OUT" THEN Ok(Stray(u, hdr))
         ELSE IF u.fs[hdr.name].kind # "none" THEN Failed(u)
         ELSE Ok(SetNode(u, hdr.name, u.fs[hdr.linkname])) :
         w \in {<<LWhere(u.fs, hdr.linkname), LWhere(u.fs, hdr.name)>>}})

\* handleLink: os.MkdirAll of the parent, os.Remove, os.Link
handleLink(t, hdr) ==
    The({IF r.err THEN r
         ELSE The({Link(u, hdr) : u \in {Remove(r.st, hdr, hdr.name)}}) :
         r \in {MkdirAll(t, hdr, Dir(hdr.name))}})

\* handleTarHeader, lines 286-291: the handlers by type flag
HandledTypes == {"dir", "reg", "symlink", "link"}

Handle(t, hdr) ==
    CASE hdr.typeflag = "dir" -> handleDir(t, hdr)
      [] hdr.typeflag = "reg" -> handleReg(t, hdr)
      [] hdr.typeflag = "symlink" -> handleSymlink(t, hdr)
      [] hdr.typeflag = "link" -> handleLink(t, hdr)

ErrRead    == "failed to read tar entry"
ErrUnknown == "unknown tar entry type"
ErrHandle  == "failed to handle tar entry"

InitFS ==
    /\ fs = [p \in Names |-> Nothing]
    /\ inodes = [i \in Inos |-> FreeInode]
    /\ strays = {}
    /\ lastHdr = NoEntry
    /\ layerNo = 1
    /\ layerErr = ""
    /\ unsupported = FALSE

\* handleTarHeader, lines 294-310: one turn of the loop, for the header read
handleTarHeader ==
    /\ FsOnly
    /\ layerErr = ""
    /\ \E hdr \in Entries :
         IF hdr.typeflag \notin HandledTypes
           THEN /\ layerErr' = ErrUnknown
                /\ unsupported' = TRUE
                /\ UNCHANGED <<fs, inodes, strays, lastHdr>>
           ELSE \E r \in {Handle(Tree(fs, inodes, strays), hdr)} :
                    /\ fs' = r.st.fs
                    /\ inodes' = r.st.ino
                    /\ strays' = r.st.strays
                    /\ lastHdr' = hdr
                    /\ layerErr' = IF r.err THEN ErrHandle ELSE ""
                    /\ UNCHANGED unsupported
    /\ UNCHANGED layerNo

\* handleTarHeader, lines 294-300: tarReader.Next fails on a damaged archive
handleTarHeaderReadFails ==
    /\ FsOnly
    /\ layerErr = ""
    /\ layerErr' = ErrRead
    /\ UNCHANGED <<fs, inodes, strays, lastHdr, layerNo, unsupported>>

\* BuildFromLayers, lines 237-245: extractLayer has returned, at the end of
\* the archive or with an error, which is dropped; the next file is taken
BuildFromLayersNext ==
    /\ FsOnly
    /\ layerNo < MaxFsLayers
    /\ layerNo' = layerNo + 1
    /\ layerErr' = ""
    /\ UNCHANGED <<fs, inodes, strays, lastHdr, unsupported>>

NextFS ==
    \/ handleTarHeader
    \/ handleTarHeaderReadFails
    \/ BuildFromLayersNext


(***************************************************************************)
(* Part 4.  BuildFromLayers as a whole, run twice over the same layers     *)
(* directory and the same target root.  The archives hold directory and    *)
(* regular-file entries.                                                   *)
(***************************************************************************)
\* entries of one archive
MaxLayerEntries == 2

\* the directory and regular-file headers the archives are made of
PlainEntries ==
    {Entry("dir", n, "", dirPerm, "") : n \in Names}
    \cup {Entry("reg", n, "", 420, "A") : n \in Names}
    \cup {Entry("reg", n, "", 493, "B") : n \in Names}

\* sequences of at most n elements of S
RECURSIVE SeqsUpTo(_, _)
SeqsUpTo(S, n) ==
    IF n = 0 THEN {<<>>}
    ELSE LET shorter == SeqsUpTo(S, n - 1)
         IN  shorter \cup {Append(q, x) : q \in shorter, x \in S}

EmptyTree == Tree([p \in Names |-> Nothing], [i \in Inos |-> FreeInode], {})

\* extractLayer and the loop of handleTarHeader (lines 293-311): the entries
\* in their order, up to the first error
RECURSIVE extractLayer(_, _)
extractLayer(t, es) ==
    IF es = <<>> THEN t
    ELSE IF Head(es).typeflag \notin HandledTypes THEN t
    ELSE The({IF r.err THEN r.st ELSE extractLayer(r.st, Tail(es)) :
              r \in {Handle(t, Head(es))}})

\* BuildFromLayers, lines 237-246: every archive in turn, errors dropped
RECURSIVE BuildFromLayers(_, _)
BuildFromLayers(t, ls) ==
    IF ls = <<>> THEN t
    ELSE The({BuildFromLayers(u, Tail(ls)) : u \in {extractLayer(t, Head(ls))}})

InitAgain ==
    /\ layers \in SeqsUpTo(PlainEntries, MaxLayerEntries) \X SeqsUpTo(PlainEntries, MaxLayerEntries)
    /\ builds = 0
    /\ firstTree = EmptyTree

AgainIdle ==
    /\ layers = <<>>
    /\ builds = 0
    /\ firstTree = EmptyTree

\* BuildFromLayers(layersDir, targetRoot) on the empty target root
BuildFromLayersFirst ==
    /\ AgainOnly
    /\ builds = 0
    /\ builds' = 1
    /\ \E u \in {BuildFromLayers(Tree(fs, inodes, strays), layers)} :
         /\ fs' = u.fs
         /\ inodes' = u.ino
         /\ strays' = u.strays
         /\ firstTree' = u
    /\ UNCHANGED layers

\* BuildFromLayers(layersDir, targetRoot) once more, on what the first left
BuildFromLayersAgain ==
    /\ AgainOnly
    /\ builds = 1
    /\ builds' = 2
    /\ \E u \in {BuildFromLayers(Tree(fs, inodes, strays), layers)} :
         /\ fs' = u.fs
         /\ inodes' = u.ino
         /\ strays' = u.strays
    /\ UNCHANGED <<layers, firstTree>>

NextAgain ==
    \/ BuildFromLayersFirst
    \/ BuildFromLayersAgain


(***************************************************************************)
(* Part 5.  Several launches on one host, each a supervisor in Run with    *)
(* its child, and the groups they make under the root slice.               *)
(***************************************************************************)
\* launches on the host, at the same time or one after the other
MaxLaunches == 2

Launches == 1..MaxLaunches

\* attachToCgroup, line 97: the group of a launch
GroupName(l) == "gocker-container.slice"

InitLaunches ==
    /\ launchPc = [l \in Launches |-> "Start"]
    /\ launchChild = [l \in Launches |-> "none"]
    /\ launchGroup = [l \in Launches |-> ""]
    /\ launchErr = [l \in Launches |-> ""]
    /\ slices = {}

LaunchesIdle ==
    /\ launchPc = <<>>
    /\ launchChild = <<>>
    /\ launchGroup = <<>>
    /\ launchErr = <<>>
    /\ slices = {}

\* Run, lines 25-35: cmd.Start()
LaunchStart ==
    /\ LaunchOnly
    /\ \E l \in Launches :
         /\ launchPc[l] = "Start"
         /\ \E ok \in BOOLEAN :
              IF ok
                THEN /\ launchPc' = [launchPc EXCEPT ![l] = "NewSystemd"]
                     /\ launchChild' = [launchChild EXCEPT ![l] = "running"]
                     /\ UNCHANGED launchErr
                ELSE /\ launchPc' = [launchPc EXCEPT ![l] = "returned"]
                     /\ launchErr' = [launchErr EXCEPT ![l] = ErrStart]
                     /\ UNCHANGED launchChild
    /\ UNCHANGED <<launchGroup, slices>>

\* attachToCgroup, lines 97-100: cgroup2.NewSystemd makes the group, or finds
\* it made, or fails
LaunchNewSystemd ==
    /\ LaunchOnly
    /\ \E l \in Launches :
         /\ launchPc[l] = "NewSystemd"
         /\ \E ok \in BOOLEAN :
              IF ok
                THEN /\ slices' = slices \cup {GroupName(l)}
                     /\ launchPc' = [launchPc EXCEPT ![l] = "AddProc"]
                     /\ UNCHANGED launchErr
                ELSE /\ launchPc' = [launchPc EXCEPT ![l] = "Kill"]
                     /\ launchErr' = [launchErr EXCEPT ![l] = ErrCreateCg]
                     /\ UNCHANGED slices
    /\ UNCHANGED <<launchChild, launchGroup>>

\* attachToCgroup, lines 102-104: cg.AddProc(pid)
LaunchAddProc ==
    /\ LaunchOnly
    /\ \E l \in Launches :
         /\ launchPc[l] = "AddProc"
         /\ \E ok \in BOOLEAN :
              IF ok
                THEN /\ launchGroup' = [launchGroup EXCEPT ![l] = GroupName(l)]
                     /\ launchPc' = [launchPc EXCEPT ![l] = "Wait"]
                     /\ UNCHANGED launchErr
                ELSE /\ launchPc' = [launchPc EXCEPT ![l] = "Kill"]
                     /\ launchErr' = [launchErr EXCEPT ![l] = ErrAddProc]
                     /\ UNCHANGED launchGroup
    /\ UNCHANGED <<launchChild, slices>>

\* Run, lines 38-41: the child is killed and the cgroup error returned
LaunchKill ==
    /\ LaunchOnly
    /\ \E l \in Launches :
         /\ launchPc[l] = "Kill"
         /\ launchChild' = [launchChild EXCEPT ![l] = Kill(launchChild[l])]
         /\ launchPc' = [launchPc EXCEPT ![l] = "returned"]
         /\ launchErr' = [launchErr EXCEPT ![l] = ErrCgroup]
    /\ UNCHANGED <<launchGroup, slices>>

\* Run, line 43: cmd.Wait() returns when the child has left
LaunchWait ==
    /\ LaunchOnly
    /\ \E l \in Launches :
         /\ launchPc[l] = "Wait"
         /\ launchChild[l] = "exited"
         /\ launchPc' = [launchPc EXCEPT ![l] = "returned"]
    /\ UNCHANGED <<launchChild, launchGroup, launchErr, slices>>

\* the child of a launch runs to its end
LaunchChildExits ==
    /\ LaunchOnly
    /\ \E l \in Launches :
         /\ launchChild[l] = "running"
         /\ launchChild' = [launchChild EXCEPT ![l] = "exited"]
    /\ UNCHANGED <<launchPc, launchGroup, launchErr, slices>>

NextLaunches ==
    \/ LaunchStart
    \/ LaunchNewSystemd
    \/ LaunchAddProc
    \/ LaunchKill
    \/ LaunchWait
    \/ LaunchChildExits


(***************************************************************************)
(* Part 6.  build.Runner.Prepare over a sequence of instructions, and what *)
(* main does with the launch spec it returns.                              *)
(***************************************************************************)
\* instructions given to NewRunner
MaxInstructions == 3

ErrUnsupported == "unsupported instruction type"
ErrEmptyEntry  == "entrypoint instruction is empty or not set"
ErrInvalidCopy == "invalid rootfs path or source/destination for copy instruction"
ErrCopy        == "failed to copy"

Inst(t, s, d, e) == [type |-> t, src |-> s, dst |-> d, entrypoint |-> e]

\* entrypoint vectors parseEntrypoint can yield, the empty one included
Entrypoints == {<<>>, <<"/bin/sh">>, <<"/bin/sh", "/app/index.js">>}

\* the instructions of the model: the three types of the lookup table and a
\* value of another type
Insts ==
    {Inst("FromInstruction", "", "", <<>>),
     Inst("OtherInstruction", "", "", <<>>)}
      \cup {Inst("CopyInstruction", src, "app/index.js", <<>>) :
                src \in {"", "index.js"}}
      \cup {Inst("EntryPointInstruction", "", "", e) : e \in Entrypoints}

\* NewRunner: the fields other than instructions have their zero values
NewRunner == [rootfsPath |-> "", entrypoint |-> <<>>]

\* a handler's result: the runner as it leaves it, and its error
Handled(r, err) == [runner |-> r, err |-> err]

\* handleEntrypoint: an empty vector is an error, another one is kept
handleEntrypoint(r, inst) ==
    IF Len(inst.entrypoint) = 0
      THEN {Handled(r, ErrEmptyEntry)}
      ELSE {Handled([r EXCEPT !.entrypoint = inst.entrypoint], "")}

\* handleFrom: the root filesystem is found or built and its path kept, or
\* the download or the build fails
handleFrom(r, inst) ==
    {Handled([r EXCEPT !.rootfsPath = RootfsPath], ""),
     Handled(r, ErrDownload), Handled(r, ErrBuild)}

\* handleCopy: needs the path of the root filesystem, a source and a
\* destination; the link may fail
handleCopy(r, inst) ==
    IF r.rootfsPath = "" \/ inst.src = "" \/ inst.dst = ""
      THEN {Handled(r, ErrInvalidCopy)}
      ELSE {Handled(r, ""), Handled(r, ErrCopy)}

\* Prepare's lookup table
HasHandler(inst) ==
    inst.type \in {"FromInstruction", "CopyInstruction", "EntryPointInstruction"}

Handler(r, inst) ==
    CASE inst.type = "FromInstruction" -> handleFrom(r, inst)
      [] inst.type = "CopyInstruction" -> handleCopy(r, inst)
      [] inst.type = "EntryPointInstruction" -> handleEntrypoint(r, inst)

InitPrepare ==
    /\ instructions \in UNION {[1..k -> Insts] : k \in 0..MaxInstructions}
    /\ instrIdx = 1
    /\ runner = NewRunner
    /\ prepPc = "Prepare"
    /\ prepErr = ""
    /\ prepared = NewRunner
    /\ hasInitEnv \in BOOLEAN
    /\ mainErr = ""

PrepareIdle ==
    /\ instructions = <<>>
    /\ instrIdx = 1
    /\ runner = NewRunner
    /\ prepPc = "idle"
    /\ prepErr = ""
    /\ prepared = NewRunner
    /\ hasInitEnv = FALSE
    /\ mainErr = ""

\* Prepare, lines 35-47: one turn of the loop
PrepareInstruction ==
    /\ PrepareOnly
    /\ prepPc = "Prepare"
    /\ instrIdx <= Len(instructions)
    /\ IF ~HasHandler(instructions[instrIdx])
         THEN /\ prepErr' = ErrUnsupported
              /\ prepPc' = "returned"
              /\ UNCHANGED <<runner, instrIdx, prepared>>
         ELSE \E h \in Handler(runner, instructions[instrIdx]) :
                /\ runner' = h.runner
                /\ IF h.err # ""
                     THEN /\ prepErr' = h.err
                          /\ prepPc' = "returned"
                          /\ UNCHANGED <<instrIdx, prepared>>
                     ELSE /\ instrIdx' = instrIdx + 1
                          /\ UNCHANGED <<prepErr, prepPc, prepared>>
    /\ UNCHANGED <<instructions, hasInitEnv, mainErr>>

\* Prepare, line 48: return r.rootfsPath, r.entrypoint, err
PrepareReturn ==
    /\ PrepareOnly
    /\ prepPc = "Prepare"
    /\ instrIdx > Len(instructions)
    /\ prepared' = runner
    /\ prepErr' = ""
    /\ prepPc' = "returned"
    /\ UNCHANGED <<instructions, instrIdx, runner, hasInitEnv, mainErr>>

\* main, lines 29-34, and Run, lines 21-25: an error of Prepare ends the
\* process; otherwise Run is called with what Prepare returned and takes the
\* init branch when the marker is set, the supervisor's otherwise
mainRun ==
    /\ PrepareOnly
    /\ prepPc = "returned"
    /\ IF prepErr # ""
         THEN /\ prepPc' = "exited"
              /\ mainErr' = ErrPrepare
         ELSE /\ prepPc' = IF hasInitEnv THEN "startInitProcess" ELSE "supervisor"
              /\ UNCHANGED mainErr
    /\ UNCHANGED <<instructions, instrIdx, runner, prepErr, prepared, hasInitEnv>>

\* startInitProcess, lines 54-65: Chroot(rootfs), Chdir, Mount; Chroot of the
\* empty path fails
startInitProcessSetup ==
    /\ PrepareOnly
    /\ prepPc = "startInitProcess"
    /\ \E err \in {"", ErrChroot, ErrChdir, ErrMount} :
         /\ prepared.rootfsPath = "" => err = ErrChroot
         /\ IF err = ""
              THEN /\ prepPc' = "index"
                   /\ UNCHANGED mainErr
              ELSE /\ prepPc' = "exited"
                   /\ mainErr' = err
    /\ UNCHANGED <<instructions, instrIdx, runner, prepErr, prepared, hasInitEnv>>

\* startInitProcess, line 67: entrypoint := command[0]
startInitProcessIndex ==
    /\ PrepareOnly
    /\ prepPc = "index"
    /\ IF Len(prepared.entrypoint) = 0
         THEN /\ prepPc' = "exited"
              /\ mainErr' = ErrPanic
         ELSE /\ prepPc' = "Stat"
              /\ UNCHANGED mainErr
    /\ UNCHANGED <<instructions, instrIdx, runner, prepErr, prepared, hasInitEnv>>

NextPrepare ==
    \/ PrepareInstruction
    \/ PrepareReturn
    \/ mainRun
    \/ startInitProcessSetup
    \/ startInitProcessIndex


(***************************************************************************)
(* Part 7.  build.Runner.handleCopy, one system call at a time, on the     *)
(* destination path inside the root filesystem and the source on the host. *)
(***************************************************************************)
ErrGetwd      == "failed to get current working directory"
ErrSrcMissing == "source file does not exist"
ErrDstDir     == "failed to create destination directory"

\* what a path holds: nothing, a file of some content, or a directory of
\* some content
Node(k, d) == [kind |-> k, data |-> d]

Absent == Node("none", "")

\* files and directories found at a path
Present == {Node("file", "A"), Node("file", "B"), Node("dir", ""), Node("dir", "A")}

\* the destination's parent and the destination: an entry has a directory
\* for its parent
Destinations ==
    {<<"none", Absent>>, <<"file", Absent>>, <<"dir", Absent>>}
      \cup {<<"dir", n>> : n \in Present}

\* os.Stat of a path whose parent is parent and that holds node
StatNode(parent, node) ==
    IF parent = "file" THEN "other"
    ELSE IF parent = "none" \/ node.kind = "none" THEN "ENOENT"
    ELSE "nil"

InitCopy ==
    /\ copyPc = "check"
    /\ copyRootfs \in {"", RootfsPath}
    /\ copyInst \in [src : {"", "index.js"}, dst : {"", "app/index.js"}]
    /\ hostSrc \in {Absent} \cup Present
    /\ \E d \in Destinations : dstParent = d[1] /\ dstNode = d[2]
    /\ dstBefore = dstNode
    /\ copyErr = ""

CopyIdle ==
    /\ copyPc = "idle"
    /\ copyRootfs = ""
    /\ copyInst = [src |-> "", dst |-> ""]
    /\ hostSrc = Absent
    /\ dstParent = "none"
    /\ dstNode = Absent
    /\ dstBefore = Absent
    /\ copyErr = ""

\* handleCopy returns err
CopyFails(err) ==
    /\ copyErr' = err
    /\ copyPc' = "returned"

\* handleCopy, lines 108-114: the root filesystem path, src and dst are set
handleCopyCheck ==
    /\ CopyOnly
    /\ copyPc = "check"
    /\ IF copyRootfs = "" \/ copyInst.src = "" \/ copyInst.dst = ""
         THEN CopyFails(ErrInvalidCopy)
         ELSE /\ copyPc' = "Getwd"
              /\ UNCHANGED copyErr
    /\ UNCHANGED <<copyRootfs, copyInst, hostSrc, dstParent, dstNode, dstBefore>>

\* handleCopy, lines 116-122: os.Getwd
handleCopyGetwd ==
    /\ CopyOnly
    /\ copyPc = "Getwd"
    /\ \E ok \in BOOLEAN :
         IF ok THEN /\ copyPc' = "StatDst"
                    /\ UNCHANGED copyErr
               ELSE CopyFails(ErrGetwd)
    /\ UNCHANGED <<copyRootfs, copyInst, hostSrc, dstParent, dstNode, dstBefore>>

\* handleCopy, lines 124-127: os.Stat(dstPath) and, unless it says the path
\* does not exist, os.RemoveAll(dstPath), whose result is not looked at
handleCopyStatDst ==
    /\ CopyOnly
    /\ copyPc = "StatDst"
    /\ IF IsNotExist(StatNode(dstParent, dstNode))
         THEN UNCHANGED dstNode
         ELSE \E removed \in BOOLEAN :
                dstNode' = IF removed THEN Absent ELSE dstNode
    /\ copyPc' = "StatSrc"
    /\ UNCHANGED <<copyRootfs, copyInst, hostSrc, dstParent, dstBefore, copyErr>>

\* handleCopy, lines 129-132: os.Stat(srcPath)
handleCopyStatSrc ==
    /\ CopyOnly
    /\ copyPc = "StatSrc"
    /\ IF IsNotExist(StatNode("dir", hostSrc))
         THEN CopyFails(ErrSrcMissing)
         ELSE /\ copyPc' = "MkdirAll"
              /\ UNCHANGED copyErr
    /\ UNCHANGED <<copyRootfs, copyInst, hostSrc, dstParent, dstNode, dstBefore>>

\* handleCopy, lines 134-137: os.MkdirAll(filepath.Dir(dstPath), 0755)
handleCopyMkdirAll ==
    /\ CopyOnly
    /\ copyPc = "MkdirAll"
    /\ \E ok \in BOOLEAN :
         /\ dstParent = "file" => ~ok
         /\ dstParent = "dir" => ok
         /\ IF ok THEN /\ dstParent' = "dir"
                       /\ copyPc' = "Link"
                       /\ UNCHANGED copyErr
                  ELSE /\ CopyFails(ErrDstDir)
                       /\ UNCHANGED dstParent
    /\ UNCHANGED <<copyRootfs, copyInst, hostSrc, dstNode, dstBefore>>

\* handleCopy, lines 139-143: os.Link(srcPath, dstPath); a directory cannot
\* be linked, nor a path that is taken, nor a source on another file system
handleCopyLink ==
    /\ CopyOnly
    /\ copyPc = "Link"
    /\ \E ok \in BOOLEAN :
         /\ (hostSrc.kind = "dir" \/ dstNode.kind # "none") => ~ok
         /\ IF ok THEN /\ dstNode' = hostSrc
                       /\ copyPc' = "returned"
                       /\ UNCHANGED copyErr
                  ELSE /\ CopyFails(ErrCopy)
                       /\ UNCHANGED dstNode
    /\ UNCHANGED <<copyRootfs, copyInst, hostSrc, dstParent, dstBefore>>

NextCopy ==
    \/ handleCopyCheck
    \/ handleCopyGetwd
    \/ handleCopyStatDst
    \/ handleCopyStatSrc
    \/ handleCopyMkdirAll
    \/ handleCopyLink


(***************************************************************************)
(* Part 8.  One launch as two runs of main: the supervisor's, and the      *)
(* re-executed child's, over the same Dockerfile and the same root         *)
(* filesystem directory.  A handler is one step.                           *)
(***************************************************************************)
Procs == {"supervisor", "child"}

ErrParse == "failed to parse Dockerfile"

\* a process that runs main: its position, the instruction Prepare is at,
\* its Runner, whether its handleFrom went to the registry and whether it
\* extracted layers, and the error it ended with
Proc(pc, idx, r, req, ext, err) ==
    [pc |-> pc, idx |-> idx, runner |-> r, requested |-> req,
     extracted |-> ext, err |-> err]

NotStarted == Proc("none", 1, NewRunner, FALSE, FALSE, "")

\* main, line 13: the process starts
Started == Proc("Parse", 1, NewRunner, FALSE, FALSE, "")

\* main's os.Exit(1) after an error
Exited(pr, err) == [pr EXCEPT !.pc = "exited", !.err = err]

InitMain ==
    /\ dockerfile \in UNION {[1..k -> Insts] : k \in 0..MaxInstructions}
    /\ procs = [p \in Procs |-> IF p = "supervisor" THEN Started ELSE NotStarted]
    /\ rootfsDir \in BOOLEAN

MainIdle ==
    /\ dockerfile = <<>>
    /\ procs = [p \in Procs |-> NotStarted]
    /\ rootfsDir = FALSE

\* main, lines 14-25: Getwd and dockerfile.Parse
mainParse ==
    /\ MainOnly
    /\ \E p \in Procs :
         /\ procs[p].pc = "Parse"
         /\ \E ok \in BOOLEAN :
              procs' = [procs EXCEPT ![p] =
                          IF ok THEN [@ EXCEPT !.pc = "Prepare"]
                                ELSE Exited(@, ErrParse)]
    /\ UNCHANGED <<dockerfile, rootfsDir>>

\* Prepare, lines 35-47, for a FromInstruction: the whole of handleFrom.
\* os.Stat says the directory is there and nothing else is done; or the two
\* os.MkdirAll run, their errors dropped (made: the directory was created),
\* then DownloadImage, then BuildFromLayers, which extracts the layers there
\* are (ext) and whose handlers' own MkdirAll may create the directory
\* (built).
mainHandleFrom ==
    /\ MainOnly
    /\ \E p \in Procs :
         /\ procs[p].pc = "Prepare"
         /\ procs[p].idx <= Len(dockerfile)
         /\ dockerfile[procs[p].idx].type = "FromInstruction"
         /\ \E h \in handleFrom(procs[p].runner, dockerfile[procs[p].idx]),
               err \in StatDir(rootfsDir), made, ext, built \in BOOLEAN :
              IF ~IsNotExist(err)
                THEN /\ h.err = ""
                     /\ ~made /\ ~ext /\ ~built
                     /\ procs' = [procs EXCEPT ![p] =
                                     [@ EXCEPT !.runner = h.runner,
                                               !.idx = @ + 1]]
                     /\ UNCHANGED rootfsDir
                ELSE /\ h.err # "" => ~ext
                     /\ built => (ext /\ ~made)
                     /\ rootfsDir' = (made \/ built)
                     /\ procs' = [procs EXCEPT ![p] =
                                     [(IF h.err = ""
                                         THEN [@ EXCEPT !.runner = h.runner,
                                                        !.idx = @ + 1]
                                         ELSE Exited(@, ErrPrepare))
                                      EXCEPT !.requested = TRUE,
                                             !.extracted = ext]]
    /\ UNCHANGED dockerfile

\* Prepare, lines 35-47, for an instruction of another type
mainHandleOther ==
    /\ MainOnly
    /\ \E p \in Procs :
         /\ procs[p].pc = "Prepare"
         /\ procs[p].idx <= Len(dockerfile)
         /\ dockerfile[procs[p].idx].type # "FromInstruction"
         /\ IF ~HasHandler(dockerfile[procs[p].idx])
              THEN procs' = [procs EXCEPT ![p] = Exited(@, ErrPrepare)]
              ELSE \E h \in Handler(procs[p].runner, dockerfile[procs[p].idx]) :
                     procs' = [procs EXCEPT ![p] =
                                 IF h.err = ""
                                   THEN [@ EXCEPT !.runner = h.runner,
                                                  !.idx = @ + 1]
                                   ELSE Exited(@, ErrPrepare)]
    /\ UNCHANGED <<dockerfile, rootfsDir>>

\* Prepare, line 48, and main, lines 29-34: container.Run is called
mainPrepareReturns ==
    /\ MainOnly
    /\ \E p \in Procs :
         /\ procs[p].pc = "Prepare"
         /\ procs[p].idx > Len(dockerfile)
         /\ procs' = [procs EXCEPT ![p].pc = "Run"]
    /\ UNCHANGED <<dockerfile, rootfsDir>>

\* Run, lines 21-35: the child has the marker and takes the init branch; the
\* supervisor starts the child, which begins main anew
mainCallsRun ==
    /\ MainOnly
    /\ \E p \in Procs :
         /\ procs[p].pc = "Run"
         /\ IF p = "child"
              THEN procs' = [procs EXCEPT ![p].pc = "startInitProcess"]
              ELSE \E ok \in BOOLEAN :
                     procs' = IF ok
                                THEN [procs EXCEPT ![p].pc = "attachToCgroup",
                                                   !["child"] = Started]
                                ELSE [procs EXCEPT ![p] = Exited(@, ErrStart)]
    /\ UNCHANGED <<dockerfile, rootfsDir>>

NextMain ==
    \/ mainParse
    \/ mainHandleFrom
    \/ mainHandleOther
    \/ mainPrepareReturns
    \/ mainCallsRun


(***************************************************************************)
(* The specifications.  Each runs one part and leaves the other parts in   *)
(* their initial state.                                                    *)
(***************************************************************************)
vars ==
    <<runVars, imgVars, fsVars, againVars, launchVars, prepVars, copyVars,
      orchVars>>

\* a launch that has not been started
RunIdle ==
    /\ rootfsFiles = {}
    /\ command = <<>>
    /\ supPc = "Start"
    /\ childPc = "none"
    /\ childEnv = {}
    /\ cgroupProcs = {}
    /\ cgroupMade = FALSE
    /\ attachErr = ""
    /\ runErr = ""
    /\ initErr = ""
    /\ statErr = ""
    /\ childExit = -1
    /\ execArgs = <<>>
    /\ calls = <<>>

InitRunSpec ==
    InitRun /\ InitImage /\ InitFS /\ AgainIdle /\ LaunchesIdle
    /\ PrepareIdle /\ CopyIdle /\ MainIdle

InitImageSpec ==
    InitImage /\ RunIdle /\ InitFS /\ AgainIdle /\ LaunchesIdle
    /\ PrepareIdle /\ CopyIdle /\ MainIdle

InitFSSpec ==
    InitFS /\ RunIdle /\ InitImage /\ AgainIdle /\ LaunchesIdle
    /\ PrepareIdle /\ CopyIdle /\ MainIdle

InitAgainSpec ==
    InitAgain /\ InitFS /\ RunIdle /\ InitImage /\ LaunchesIdle
    /\ PrepareIdle /\ CopyIdle /\ MainIdle

InitLaunchesSpec ==
    InitLaunches /\ RunIdle /\ InitImage /\ InitFS /\ AgainIdle
    /\ PrepareIdle /\ CopyIdle /\ MainIdle

SpecRun == InitRunSpec /\ [][NextRun]_vars

SpecImage == InitImageSpec /\ [][NextImage]_vars

SpecFS == InitFSSpec /\ [][NextFS]_vars

SpecAgain == InitAgainSpec /\ [][NextAgain]_vars

SpecLaunches == InitLaunchesSpec /\ [][NextLaunches]_vars

InitPrepareSpec ==
    InitPrepare /\ RunIdle /\ InitImage /\ InitFS /\ AgainIdle /\ LaunchesIdle
    /\ CopyIdle /\ MainIdle

SpecPrepare == InitPrepareSpec /\ [][NextPrepare]_vars

InitCopySpec ==
    InitCopy /\ RunIdle /\ InitImage /\ InitFS /\ AgainIdle /\ LaunchesIdle
    /\ PrepareIdle /\ MainIdle

SpecCopy == InitCopySpec /\ [][NextCopy]_vars

InitMainSpec ==
    InitMain /\ RunIdle /\ InitImage /\ InitFS /\ AgainIdle /\ LaunchesIdle
    /\ PrepareIdle /\ CopyIdle

SpecMain == InitMainSpec /\ [][NextMain]_vars

(***************************************************************************)
(* Claims about container.Run (checked under SpecRun).                     *)
(***************************************************************************)
Called(name) == \E i \in 1..Len(calls) : calls[i] = name

\* every call of b is preceded by a call of a
CalledBefore(a, b) ==
    \A j \in 1..Len(calls) : calls[j] = b => \E i \in 1..(j - 1) : calls[i] = a

IsInitCall(c) == c \in {"Chroot", "Chdir", "Mount", "Stat", "Exec"}

\* the system calls of the init branch, in the order made
InitCalls == SelectSeq(calls, IsInitCall)

EntrypointMissing == Len(command) > 0 /\ command[1] \notin rootfsFiles

\* C1: the resource-group attachment (NewSystemd, then AddProc of the child)
\* is attempted before the child calls syscall.Exec, and the entrypoint never
\* executes while the child is outside the resource group.
C1_AttachBeforeExec ==
    /\ CalledBefore("NewSystemd", "Exec")
    /\ CalledBefore("AddProc", "Exec")
    /\ (childPc = "entrypoint" => ChildPid \in cgroupProcs)

\* C2: when NewSystemd or AddProc fails, Run kills the child before it
\* returns, returns the cgroup error and never success, and the child is not
\* alive once Run has returned.
C2_AttachFailureKillsChild ==
    attachErr # "" =>
        /\ supPc \in {"Kill", "returned"}
        /\ runErr \in {"", ErrCgroup}
        /\ (supPc = "returned" =>
               /\ runErr = ErrCgroup
               /\ Called("Kill")
               /\ ~Called("Wait")
               /\ ~ChildAlive)

\* C2 witness: AddProc failed while the entrypoint was already executing,
\* and Run returned after killing it.
C2_Witness ==
    /\ attachErr = ErrAddProc
    /\ supPc = "returned"
    /\ childPc = "killed"
    /\ Called("Exec")

\* C3 as stated: a launch whose entrypoint[0] is missing from the root
\* filesystem ends with the entrypoint-not-found error, never executes the
\* entrypoint, and the existence check is made before isolation (chroot) is
\* entered.
C3_CheckedBeforeIsolation ==
    EntrypointMissing =>
        /\ (childPc = "exited" => initErr = ErrNotExist)
        /\ childPc # "entrypoint"
        /\ CalledBefore("Stat", "Chroot")

\* C3 amended: a missing entrypoint[0] is never executed; the existence check
\* is made by the child after chroot, chdir and the /proc mount, and when it
\* reports the path missing the init branch returns the entrypoint-not-found
\* error, which no other failure produces, without calling exec.
C3_MissingEntrypointNotStarted ==
    /\ (EntrypointMissing => childPc # "entrypoint")
    /\ (Called("Stat") =>
          /\ CalledBefore("Chroot", "Chdir")
          /\ CalledBefore("Chdir", "Mount")
          /\ CalledBefore("Mount", "Stat"))
    /\ (statErr = "ENOENT" =>
          /\ EntrypointMissing
          /\ initErr = ErrNotExist
          /\ childPc = "exited"
          /\ ~Called("Exec"))
    /\ (initErr = ErrNotExist => statErr = "ENOENT")
    /\ ErrNotExist \notin {ErrChroot, ErrChdir, ErrMount, ErrExec, ErrPrepare}

\* C3 witness: the check found the entrypoint missing and the child left.
C3_Witness ==
    /\ EntrypointMissing
    /\ statErr = "ENOENT"
    /\ initErr = ErrNotExist
    /\ childPc = "exited"

\* C4: a failed chroot, chdir or /proc mount ends the init branch at that
\* call (no later call is made, no exec), and the entrypoint executes only
\* after chroot, chdir, mount and the existence check, made in that order.
C4_SetupFailureAborts ==
    /\ (initErr = ErrChroot => InitCalls = <<"Chroot">> /\ ~ChildAlive)
    /\ (initErr = ErrChdir => InitCalls = <<"Chroot", "Chdir">> /\ ~ChildAlive)
    /\ (initErr = ErrMount =>
          InitCalls = <<"Chroot", "Chdir", "Mount">> /\ ~ChildAlive)
    /\ (Called("Exec") =>
          InitCalls = <<"Chroot", "Chdir", "Mount", "Stat", "Exec">>)
    /\ (childPc = "entrypoint" => initErr = "" /\ statErr # "ENOENT")

\* C4 witness: the /proc mount failed after chroot and chdir succeeded.
C4_Witness ==
    /\ initErr = ErrMount
    /\ childPc = "exited"
    /\ InitCalls = <<"Chroot", "Chdir", "Mount">>


(***************************************************************************)
(* Claims about the base-image pipeline (checked under SpecImage).         *)
(***************************************************************************)
HasMatch(list) == \E i \in 1..Len(list) : MatchesHost(list[i])

\* a token request or the manifest-list request for the tag
BeforeManifestFetch(r) ==
    r[1] = "token" \/ (r[1] = "manifests" /\ r[2] = "tag")

LayerNames == {digestToFilename(manifest[i]) : i \in 1..Len(manifest)}

ManifestDigestSet == {manifest[i] : i \in 1..Len(manifest)}

\* C5: a manifest list without a descriptor of the host's os and
\* architecture makes the download fail with the no-matching-platform error
\* before any manifest-by-digest or blob request; a list with one yields the
\* digest of a descriptor of exactly the host's os and architecture.
C5_PlatformSelection ==
    listResp = "list" =>
        IF HasMatch(manifestList)
          THEN /\ imgPc = "fetchManifest"
               /\ downloadErr = ""
               /\ \E i \in 1..Len(manifestList) :
                     /\ MatchesHost(manifestList[i])
                     /\ manifestList[i].digest = digest
          ELSE /\ imgPc \in {"returned", "idle"}
               /\ downloadErr = ErrNoPlatform
               /\ fromErr = ErrDownload
               /\ digest = ""
               /\ \A k \in 1..Len(requests) : BeforeManifestFetch(requests[k])

\* C5 witness: a list of two descriptors, neither of the host's platform,
\* was answered with the no-matching-platform error.
C5_Witness ==
    /\ listResp = "list"
    /\ Len(manifestList) = 2
    /\ ~HasMatch(manifestList)
    /\ downloadErr = ErrNoPlatform

\* C6 as stated: after a successful download of a manifest of n layers the
\* destination directory holds n files, one per layer, each named by the
\* encoding of that layer's digest.
C6_OneFilePerLayer ==
    imgPc = "ReadDir" =>
        /\ LayerNames \subseteq DOMAIN layerFiles
        /\ Cardinality(DOMAIN layerFiles) = Len(manifest)

\* C6 amended: after a successful download every manifest layer has its file,
\* named by the encoding of its digest and holding the answer to that
\* digest's blob request; layers of equal digest share one file, so the run
\* writes one file per distinct digest, and leaves files of other names
\* (from earlier runs) as they were.
C6_OneFilePerDigest ==
    imgPc = "ReadDir" =>
        /\ LayerNames \subseteq DOMAIN layerFiles
        /\ Cardinality(LayerNames) = Cardinality(ManifestDigestSet)
        /\ \A i \in 1..Len(manifest) :
              /\ layerFiles[digestToFilename(manifest[i])].digest = manifest[i]
              /\ layerFiles[digestToFilename(manifest[i])].body \in {"layer", "error"}
        /\ DOMAIN layerFiles = DOMAIN before.layerFiles \cup LayerNames
        /\ \A n \in DOMAIN before.layerFiles \ LayerNames :
              layerFiles[n] = before.layerFiles[n]

\* C6 witness: a manifest of two different layers was downloaded whole.
C6_Witness ==
    /\ imgPc = "ReadDir"
    /\ Len(manifest) = 2
    /\ manifest[1] # manifest[2]
    /\ \A n \in LayerNames : n \in DOMAIN layerFiles /\ layerFiles[n].body = "layer"

\* C7: an invocation that finds the root filesystem directory present
\* issues no request, extracts nothing, leaves the layer files and the tree
\* as they were and reports the directory as the root filesystem path.
C7_CacheShortCircuit ==
    (before.rootfsExists /\ imgPc # "idle") =>
        /\ imgPc = "returned"
        /\ requests = <<>>
        /\ dirListing = <<>>
        /\ layerFiles = before.layerFiles
        /\ rootfsTree = before.rootfsTree
        /\ rootfsExists
        /\ rRootfsPath = RootfsPath
        /\ fromErr = ""

\* C7 witness: an invocation returned from the short-circuit on a populated
\* root filesystem.
C7_Witness ==
    /\ imgPc = "returned"
    /\ before.rootfsExists
    /\ before.rootfsTree # <<>>
    /\ rRootfsPath = RootfsPath
    /\ requests = <<>>

\* C8: an invocation that follows a failed one re-enters the download (it
\* issues requests), and the short-circuit is taken only for a root
\* filesystem directory that holds an assembled tree.
C8_FailedRunIsRetried ==
    /\ (imgPc = "returned" /\ before.failed => requests # <<>>)
    /\ (imgPc = "returned" /\ before.rootfsExists /\ requests = <<>> =>
          before.rootfsTree # <<>>)

\* C9: the layers are applied to the target root in manifest order: of two
\* different layers the one listed first is extracted first.
C9_ManifestOrder ==
    \A i, j \in 1..Len(manifest) : \A p, q \in 1..Len(rootfsTree) :
        (/\ i < j
         /\ manifest[i] # manifest[j]
         /\ rootfsTree[p].digest = manifest[i]
         /\ rootfsTree[q].digest = manifest[j]) => p < q

\* a request for a layer blob
IsBlob(r) == r[1] = "blobs"

\* the blob requests of this run of the pipeline, in the order of their issue
BlobRequests == SelectSeq(requests, IsBlob)

\* the layer file of manifest.Layers[k] is in the destination directory
Kept(k) == digestToFilename(manifest[k]) \in DOMAIN layerFiles

\* and it holds a body that was written to its end
Complete(k) == layerFiles[digestToFilename(manifest[k])].body # "partial"

\* C18: the blobs are requested in the order of the manifest, each after the
\* body of the layer before it was written to its end; when downloadLayer
\* fails the download returns that error at once, with no request for a later
\* layer, and the files of the earlier layers stay in the destination
\* directory, as does what was written of the failing one.
C18_SequentialFailFast ==
    LET n == Len(BlobRequests)
    IN  /\ n <= Len(manifest)
        /\ \A k \in 1..n : BlobRequests[k] = <<"blobs", manifest[k]>>
        /\ \A k \in 1..(n - 1) :
              /\ Kept(k)
              /\ manifest[k] # manifest[n] => Complete(k)
        /\ imgPc = "downloadLayer" => n = layerIdx - 1 /\ downloadErr = ""
        /\ downloadErr = ErrLayer =>
              /\ imgPc \in {"returned", "idle"}
              /\ fromErr = ErrDownload
              /\ n = layerIdx
              /\ imgPc = "returned" => rootfsTree = before.rootfsTree

\* the second of two layers has failed with a part of its body written; the
\* file of the first is in place
C18_Witness ==
    /\ downloadErr = ErrLayer
    /\ Len(manifest) = 2
    /\ manifest[1] # manifest[2]
    /\ Len(BlobRequests) = 2
    /\ Kept(1) /\ Complete(1)
    /\ Kept(2) /\ ~Complete(2)

\* the run of handleFrom that has returned went through the pipeline, and the
\* layer archive n, which it extracted, failed to extract
FailedLayer(n) ==
    /\ imgPc = "returned"
    /\ IsNotExist(statRootfs)
    /\ downloadErr = ""
    /\ fromErr # ErrBuild
    /\ Ext(n) = layerFileExt
    /\ ExtractFails(layerFiles[n])

\* C11: when the extraction of a layer fails, the assembly returns an error to
\* handleFrom, which returns it too and does not record the root filesystem
\* as prepared.
C11_FailedExtractionIsReported ==
    \A n \in DOMAIN layerFiles :
        FailedLayer(n) => fromErr # "" /\ rRootfsPath = ""

(***************************************************************************)
(* Claims about the extraction of tar entries (SpecFS).                    *)
(***************************************************************************)
\* what the tree f with files i holds at path p for the entry hdr
EntryInPlace(f, i, hdr) ==
    LET p == hdr.name
    IN  CASE hdr.typeflag = "dir" -> f[p].kind = "dir"
          [] hdr.typeflag = "reg" ->
                /\ f[p].kind = "file"
                /\ i[f[p].ino] = [data |-> hdr.data, mode |-> hdr.mode]
          [] hdr.typeflag = "symlink" -> f[p] = SymNode(hdr.linkname)
          [] hdr.typeflag = "link" ->
                f[hdr.linkname].kind = "file" => f[p] = f[hdr.linkname]
          [] OTHER -> TRUE

\* C10: after an entry of a layer is extracted, the path it names holds that
\* entry's kind, content and mode, whatever was at the path before (a file
\* over a directory, a directory over a file, a file over a symbolic link or
\* a hard-linked file), and the regular files at the other paths keep their
\* content.
C10_LastWriteWins ==
    [][(handleTarHeader /\ layerErr' # ErrUnknown) =>
          /\ EntryInPlace(fs', inodes', lastHdr')
          /\ \A q \in Names \ {lastHdr'.name} :
                fs[q].kind = "file" =>
                    /\ fs'[q].kind = "file"
                    /\ inodes'[fs'[q].ino].data = inodes[fs[q].ino].data]_vars

\* C12: once a layer has shown an entry that is neither a directory, a regular
\* file, a symbolic link nor a hard link, the whole assembly is over: no
\* further entry is read or extracted, of that layer or of a later one.
C12_UnsupportedEntryAborts ==
    [][unsupported => ~handleTarHeader]_vars

\* the step is handleTarHeader giving an entry of type t to its handler
Handles(t) ==
    /\ handleTarHeader
    /\ layerErr' # ErrUnknown
    /\ lastHdr'.typeflag = t

\* the entry's own path is in the target root, not behind a symbolic link
InRoot(f, hdr) == LWhere(f, hdr.name) \notin {"OUT", "ERR"}

C14_SymlinkVerbatim ==
    [][Handles("symlink") =>
          /\ (layerErr' = "" /\ InRoot(fs', lastHdr')) =>
                fs'[lastHdr'.name] = SymNode(lastHdr'.linkname)
          /\ (InRoot(fs, lastHdr') /\ fs[lastHdr'.name].kind \in {"file", "symlink"}) =>
                /\ layerErr' = ""
                /\ fs'[lastHdr'.name] = SymNode(lastHdr'.linkname)]_vars

\* a link to an absolute path has been made; it leads out of the target root
C14_Witness ==
    /\ lastHdr.typeflag = "symlink"
    /\ lastHdr.linkname = "/etc/passwd"
    /\ layerErr = ""
    /\ fs[lastHdr.name] = SymNode("/etc/passwd")
    /\ \E q \in Names \ {lastHdr.name} : fs[q].kind = "file"

(***************************************************************************)
(* More claims about Run (SpecRun).                                        *)
(***************************************************************************)
\* C17: when the child was started and added to the group, Run has returned
\* only after the child has ended, and it returns an error exactly when the
\* child's exit status is not zero, an error of the init branch included.
C17_WaitsForChild ==
    (supPc = "returned" /\ ChildPid \in cgroupProcs) =>
        /\ ~ChildAlive
        /\ childPc # "none"
        /\ (childExit # 0 <=> runErr # "")
        /\ (initErr # "" => runErr = ErrExit)

\* Run has returned the exit status of a child that failed in its init branch
C17_Witness ==
    /\ supPc = "returned"
    /\ ChildPid \in cgroupProcs
    /\ initErr = ErrMount
    /\ childExit = 1
    /\ runErr = ErrExit

\* the number of calls of the given name made so far
Times(name) == Cardinality({i \in 1..Len(calls) : calls[i] = name})

\* C19: a launch whose supervisor has no init marker calls Start once; the
\* child it starts has the marker in its environment, takes the init branch
\* when it reaches Run and never goes on to spawn a process or to attach a
\* resource group, so no more than one Start, one NewSystemd and one AddProc
\* are ever called and the only child is the supervisor's own.
C19_OneChildDepthOne ==
    /\ Times("Start") = (IF supPc = "Start" THEN 0 ELSE 1)
    /\ Times("NewSystemd") <= 1
    /\ Times("AddProc") <= 1
    /\ childPc # "none" => initEnv \in childEnv
    /\ childPc # "Respawn"
    /\ cgroupProcs \subseteq {ChildPid}
    /\ (Len(InitCalls) > 0 \/ childPc \in {"Chroot", "entrypoint"}) =>
          /\ initEnv \in childEnv
          /\ Times("Start") = 1

\* the child has taken the init branch and is in the group of the
\* supervisor, which waits for it
C19_Witness ==
    /\ supPc = "Wait"
    /\ cgroupProcs = {ChildPid}
    /\ childPc = "Chdir"
    /\ initEnv \in childEnv
    /\ Times("Start") = 1

(***************************************************************************)
(* Claims about a repeated BuildFromLayers (SpecAgain).                    *)
(***************************************************************************)
\* the paths the entries es name
Written(es) == {es[k].name : k \in DOMAIN es}

\* the last entry of es that names p
LastFor(es, p) ==
    es[CHOOSE k \in DOMAIN es :
           /\ es[k].name = p
           /\ \A j \in DOMAIN es : es[j].name = p => j <= k]

\* C15: for layers of directory and regular-file entries, extracting A then B
\* into the target root that holds the result of A then B leaves the tree as
\* the first extraction left it, and at every path that both layers wrote the
\* tree holds what the second layer wrote there, content and mode.
C15_IdempotentSecondWins ==
    builds = 2 =>
        /\ Tree(fs, inodes, strays) = firstTree
        /\ \A p \in Written(layers[1]) \cap Written(layers[2]) :
              EntryInPlace(fs, inodes, LastFor(layers[2], p))

(***************************************************************************)
(* Claims about several launches (SpecLaunches).                           *)
(***************************************************************************)
\* C16: the group is made per launch: the children of two launches, running
\* together or one after the other, are added to different groups, so that
\* no launch shares its memory ceiling and CPU quota with another.
C16_GroupPerLaunch ==
    \A a, b \in Launches :
        (a # b /\ launchGroup[a] # "" /\ launchGroup[b] # "") =>
            launchGroup[a] # launchGroup[b]

(***************************************************************************)
(* Claims about Prepare and the launch spec it returns (SpecPrepare).      *)
(***************************************************************************)
\* C20: whenever Prepare has returned without error, the root filesystem
\* path it returned is not empty and the entrypoint it returned has at least
\* one element, whatever the instructions were; and the init branch never
\* indexes an empty command vector.
C20_PreparedIsUsable ==
    /\ (prepPc \notin {"idle", "Prepare"} /\ prepErr = "") =>
          /\ prepared.rootfsPath # ""
          /\ Len(prepared.entrypoint) >= 1
    /\ mainErr # ErrPanic

(***************************************************************************)
(* Claims about handleCopy (SpecCopy).                                     *)
(***************************************************************************)
\* C22: when handleCopy has returned an error, a file or directory that was
\* at the destination path when it was called is still there with the same
\* content.
C22_FailedCopyKeepsDestination ==
    (copyPc = "returned" /\ copyErr # "" /\ dstBefore.kind # "none") =>
        dstNode = dstBefore

(***************************************************************************)
(* More claims about the base-image pipeline (SpecImage).                  *)
(***************************************************************************)
\* C23: the download succeeds only when every exchange with the registry
\* did: an answer of the token endpoint without a token, or an error answer
\* of the manifest endpoint, makes DownloadImage return an error; no body of
\* an error answer is ever stored as a layer file; and after an error answer
\* of the manifest endpoint no root filesystem is recorded as prepared.
C23_ErrorResponsesFail ==
    /\ (Len(requests) >= 1 /\ token = "") => downloadErr = ErrAuth
    /\ manifestResp = "httperr" =>
          /\ downloadErr = ErrManifest
          /\ rRootfsPath # RootfsPath
    /\ \A n \in DOMAIN layerFiles : layerFiles[n].body # "error"

(***************************************************************************)
(* Claims about the launch as two runs of main (SpecMain).                 *)
(***************************************************************************)
\* C21: the child reaches the init branch only after it has run main anew
\* over all the instructions, and in the child handleFrom always takes the
\* cache short-circuit: the child makes no request to the registry and
\* extracts no layer, because the root filesystem directory exists from the
\* moment the supervisor's Prepare has returned without error.
C21_ChildTakesShortCircuit ==
    /\ procs["child"].pc = "startInitProcess" =>
          procs["child"].idx = Len(dockerfile) + 1
    /\ ~procs["child"].requested
    /\ ~procs["child"].extracted
    /\ (procs["child"].pc # "none"
          /\ \E k \in 1..Len(dockerfile) : dockerfile[k].type = "FromInstruction")
          => rootfsDir

=============================================================================
